---------------------------- MODULE Spec2Model ----------------------------
(***************************************************************************)
(* A model of egui-opengl-internal: the overlay host OpenGLApp (app.rs)    *)
(* and its InputCollector (input.rs), called from a presentation hook and  *)
(* a window-procedure hook (example-wnd/src/lib.rs).                       *)
(*                                                                         *)
(* Option<T> is a record: [some |-> FALSE] or [some |-> TRUE, v |-> x].    *)
(* A call that panics unwinds its thread's stack: guards are dropped (the  *)
(* host lock is released) and the call ends with outcome "panic".          *)
(***************************************************************************)
EXTENDS Integers, Sequences, FiniteSets, TLC

(***************************************************************************)
(* Bounds of the model.                                                    *)
(***************************************************************************)
\* Events appended to one collector before the window procedure stops
\* being called on it.
MaxEvents == 2
\* Messages the collector processes where it is exercised on its own.
MaxProcessed == 1
\* Presentation calls intercepted and messages sent to subclassed windows
\* where the example's hooks are modelled.
MaxSwaps == 2
MaxSent == 1

(***************************************************************************)
(* Program constants (windows-rs values imported by the source).           *)
(***************************************************************************)
InvalidWindow == -1
WM_SIZE == 5
WM_KEYDOWN == 256
WM_KEYUP == 257
WM_CHAR == 258
WM_SYSKEYDOWN == 260
WM_SYSKEYUP == 261
WM_UNICHAR == 265
WM_MOUSEMOVE == 512
WM_LBUTTONDOWN == 513
WM_LBUTTONUP == 514
WM_LBUTTONDBLCLK == 515
WM_RBUTTONDOWN == 516
WM_RBUTTONUP == 517
WM_RBUTTONDBLCLK == 518
WM_MBUTTONDOWN == 519
WM_MBUTTONUP == 520
WM_MBUTTONDBLCLK == 521
WM_MOUSEWHEEL == 522
WM_XBUTTONDOWN == 523
WM_XBUTTONUP == 524
WM_XBUTTONDBLCLK == 525
WM_MOUSEHWHEEL == 526
MK_SHIFT == 4
MK_CONTROL == 8
XBUTTON1 == 1
XBUTTON2 == 2
WHEEL_DELTA == 120
KF_REPEAT == 16384
VK_BACK == 8
VK_TAB == 9
VK_RETURN == 13
VK_ESCAPE == 27
VK_SPACE == 32
VK_PRIOR == 33
VK_NEXT == 34
VK_END == 35
VK_HOME == 36
VK_LEFT == 37
VK_UP == 38
VK_RIGHT == 39
VK_DOWN == 40
VK_INSERT == 45
VK_DELETE == 46

(***************************************************************************)
(* Machine integers.                                                       *)
(***************************************************************************)
Pow2(n) == 2 ^ n

\* x >> n on a two's-complement integer (arithmetic shift).
Shr(x, n) == x \div Pow2(n)

\* x & (2^n - 1): the low n bits, also of a negative x.
LowBits(x, n) == x % Pow2(n)

\* x & m != 0 for a one-bit mask m
TestBit(x, m) == (x \div m) % 2 = 1

\* `as i16` of a value already cut to 16 bits
AsI16(x) == IF LowBits(x, 16) >= Pow2(15) THEN LowBits(x, 16) - Pow2(16) ELSE LowBits(x, 16)

\* The two 16-bit halves of `x as u32` (the bits of x above bit 31 are cut).
U32Hi(x) == LowBits(Shr(x, 16), 16)
U32Lo(x) == LowBits(x, 16)

None == [some |-> FALSE]
Some(x) == [some |-> TRUE, v |-> x]

(***************************************************************************)
(* input.rs: the pure helpers.                                             *)
(***************************************************************************)
ModifiersNONE == [alt |-> FALSE, ctrl |-> FALSE, shift |-> FALSE, mac_cmd |-> FALSE, command |-> FALSE]

\* Mutant of get_pos: the two words are read unsigned.
get_pos_Unsigned(lparam) == << LowBits(lparam, 16), LowBits(Shr(lparam, 16), 16) >>

get_pos(lparam) == << AsI16(LowBits(lparam, 16)), AsI16(LowBits(Shr(lparam, 16), 16)) >>

get_mouse_modifiers(wparam) ==
    [alt |-> FALSE,
     ctrl |-> TestBit(wparam, MK_CONTROL),
     shift |-> TestBit(wparam, MK_SHIFT),
     mac_cmd |-> FALSE,
     command |-> TestBit(wparam, MK_CONTROL)]

\* ctrl and shift are what GetAsyncKeyState answers for VK_CONTROL and VK_LSHIFT.
get_key_modifiers(msg, ctrl, shift) ==
    [alt |-> (msg = WM_SYSKEYDOWN),
     ctrl |-> ctrl,
     shift |-> shift,
     mac_cmd |-> FALSE,
     command |-> ctrl]

\* egui's Key enumeration by discriminant, as far as get_key transmutes into it:
\* test_key_map fixes 0x20 as Num0, 0x2A as A and 0x44 as F1.
KeyDigits == << "Num0", "Num1", "Num2", "Num3", "Num4", "Num5", "Num6", "Num7", "Num8", "Num9" >>
KeyLetters == << "A", "B", "C", "D", "E", "F", "G", "H", "I", "J", "K", "L", "M",
                 "N", "O", "P", "Q", "R", "S", "T", "U", "V", "W", "X", "Y", "Z" >>
KeyFunctions == << "F1", "F2", "F3", "F4", "F5", "F6", "F7", "F8", "F9", "F10",
                   "F11", "F12", "F13", "F14", "F15", "F16", "F17", "F18", "F19", "F20" >>
KeyOfDiscriminant(d) == (KeyDigits \o KeyLetters \o KeyFunctions)[d - 31]

get_key(wparam) ==
    IF wparam \in 48..57 THEN Some(KeyOfDiscriminant(LowBits(wparam, 8) - 16))
    ELSE IF wparam \in 65..90 THEN Some(KeyOfDiscriminant(LowBits(wparam, 8) - 23))
    ELSE IF wparam \in 112..131 THEN Some(KeyOfDiscriminant(LowBits(wparam, 8) - 44))
    ELSE LET vk == LowBits(wparam, 16) IN
         CASE vk = VK_DOWN -> Some("ArrowDown")
           [] vk = VK_LEFT -> Some("ArrowLeft")
           [] vk = VK_RIGHT -> Some("ArrowRight")
           [] vk = VK_UP -> Some("ArrowUp")
           [] vk = VK_ESCAPE -> Some("Escape")
           [] vk = VK_TAB -> Some("Tab")
           [] vk = VK_BACK -> Some("Backspace")
           [] vk = VK_RETURN -> Some("Enter")
           [] vk = VK_SPACE -> Some("Space")
           [] vk = VK_INSERT -> Some("Insert")
           [] vk = VK_DELETE -> Some("Delete")
           [] vk = VK_HOME -> Some("Home")
           [] vk = VK_END -> Some("End")
           [] vk = VK_PRIOR -> Some("PageUp")
           [] vk = VK_NEXT -> Some("PageDown")
           [] OTHER -> None

\* char::from_u32 of the u32 with halves hi and lo: a Unicode scalar value,
\* at most 0x10FFFF and no surrogate
IsChar(hi, lo) == hi <= 16 /\ ~(hi = 0 /\ lo \in 55296..57343)

\* char::is_control: the Cc category
IsControl(u) == u \in 0..31 \/ u \in 127..159

(***************************************************************************)
(* input.rs: InputCollector                                                *)
(***************************************************************************)
\* Mutant of InputCollector_new: the collector is made for the null window.
InputCollector_new_Null(hwnd) == [hwnd |-> 0, events |-> << >>, modifiers |-> None]

InputCollector_new(hwnd) == [hwnd |-> hwnd, events |-> << >>, modifiers |-> None]

\* Mutant of alter_modifiers: the modifiers are stored also when none were.
alter_modifiers_Always(self, new) == [self EXCEPT !.modifiers = Some(new)]

alter_modifiers(self, new) ==
    IF self.modifiers.some THEN [self EXCEPT !.modifiers = Some(new)] ELSE self

\* Mutant of push: the event goes to the front of the queue.
push_front(self, e) == [self EXCEPT !.events = << e >> \o @]

push(self, e) == [self EXCEPT !.events = Append(@, e)]

PointerButtonEvent(lparam, button, pressed, modifiers) ==
    [type |-> "PointerButton", pos |-> get_pos(lparam), button |-> button,
     pressed |-> pressed, modifiers |-> modifiers]

\* What process answers: the collector after it, the classification, and
\* whether it panicked (unreachable!()) instead of returning.
Processed(self, result) == [c |-> self, result |-> result, panic |-> FALSE]
Unreachable(self) == [c |-> self, result |-> "Unknown", panic |-> TRUE]

process_button(self, wparam, lparam, button, pressed, result) ==
    LET modifiers == get_mouse_modifiers(wparam) IN
    Processed(push(alter_modifiers(self, modifiers),
                   PointerButtonEvent(lparam, button, pressed, modifiers)), result)

process_xbutton(self, wparam, lparam, pressed) ==
    LET modifiers == get_mouse_modifiers(wparam)
        altered == alter_modifiers(self, modifiers)
        hi == U32Hi(wparam)
    IN  IF TestBit(hi, XBUTTON1)
        THEN Processed(push(altered, PointerButtonEvent(lparam, "Extra1", pressed, modifiers)), "MouseMiddle")
        ELSE IF TestBit(hi, XBUTTON2)
        THEN Processed(push(altered, PointerButtonEvent(lparam, "Extra2", pressed, modifiers)), "MouseMiddle")
        ELSE Unreachable(altered)

process_char(self, wparam) ==
    LET hi == U32Hi(wparam)
        lo == U32Lo(wparam)
        unicode_char == hi * Pow2(16) + lo
    IN
    IF ~(hi = 0 /\ lo = 65535) /\ IsChar(hi, lo) /\ ~IsControl(unicode_char)
    THEN Processed(push(self, [type |-> "Text", text |-> << unicode_char >>]), "Character")
    ELSE Processed(self, "Character")

\* Mutant of process_wheel: the wheel distance is read unsigned.
process_wheel_Unsigned(self, wparam) ==
    LET altered == alter_modifiers(self, get_mouse_modifiers(wparam))
        num == LowBits(Shr(wparam, 16), 16) * 10
    IN  IF TestBit(wparam, MK_CONTROL)
        THEN Processed(push(altered, [type |-> "Zoom", num |-> IF num > 0 THEN 15 ELSE 5, den |-> 10]), "Zoom")
        ELSE Processed(push(altered, [type |-> "MouseWheel", unit |-> "Point",
                                      x |-> 0, num |-> num, den |-> WHEEL_DELTA,
                                      modifiers |-> ModifiersNONE]), "Scroll")

\* delta is (wparam >> 16) as i16 as f32 * 10. / WHEEL_DELTA, kept as the
\* fraction num / den.
process_wheel(self, wparam) ==
    LET altered == alter_modifiers(self, get_mouse_modifiers(wparam))
        num == AsI16(LowBits(Shr(wparam, 16), 16)) * 10
    IN  IF TestBit(wparam, MK_CONTROL)
        THEN Processed(push(altered, [type |-> "Zoom", num |-> IF num > 0 THEN 15 ELSE 5, den |-> 10]), "Zoom")
        ELSE Processed(push(altered, [type |-> "MouseWheel", unit |-> "Point",
                                      x |-> 0, num |-> num, den |-> WHEEL_DELTA,
                                      modifiers |-> ModifiersNONE]), "Scroll")

\* Mutant of KeyEvent: repeat is read from bit 30 of lparam.
KeyEvent_Bit30(pressed, modifiers, key, lparam) ==
    [type |-> "Key", pressed |-> pressed, modifiers |-> modifiers, key |-> key,
     repeat |-> TestBit(lparam, 1073741824)]

KeyEvent(pressed, modifiers, key, lparam) ==
    [type |-> "Key", pressed |-> pressed, modifiers |-> modifiers, key |-> key,
     repeat |-> TestBit(lparam, KF_REPEAT)]

\* env.clip is what get_clipboard_text answers: an Option of a text.
process_keydown(self, msg, wparam, lparam, env) ==
    LET modifiers == get_key_modifiers(msg, env.ctrl, env.shift)
        s0 == [self EXCEPT !.modifiers = Some(modifiers)]
        key == get_key(wparam)
        s1 == IF key.some /\ key.v = "V" /\ modifiers.ctrl /\ env.clip.some
              THEN push(s0, [type |-> "Text", text |-> env.clip.v]) ELSE s0
        s2 == IF key.some /\ key.v = "C" /\ modifiers.ctrl
              THEN push(s1, [type |-> "Copy"]) ELSE s1
        s3 == IF key.some /\ key.v = "X" /\ modifiers.ctrl
              THEN push(s2, [type |-> "Cut"]) ELSE s2
    IN  IF key.some
        THEN Processed(push(s3, KeyEvent(TRUE, modifiers, key.v, lparam)), "Key")
        ELSE Processed(s0, "Key")

process_keyup(self, msg, wparam, lparam, env) ==
    LET modifiers == get_key_modifiers(msg, env.ctrl, env.shift)
        s0 == [self EXCEPT !.modifiers = Some(modifiers)]
        key == get_key(wparam)
    IN  IF key.some
        THEN Processed(push(s0, KeyEvent(FALSE, modifiers, key.v, lparam)), "Key")
        ELSE Processed(s0, "Key")

\* Mutant of process_default: an unrecognized message empties the queue.
process_default_Clears(self) == Processed([self EXCEPT !.events = << >>], "Unknown")

\* _ => InputResult::Unknown
process_default(self) == Processed(self, "Unknown")

process(self, umsg, wparam, lparam, env) ==
    CASE umsg = WM_MOUSEMOVE ->
           Processed(push(alter_modifiers(self, get_mouse_modifiers(wparam)),
                          [type |-> "PointerMoved", pos |-> get_pos(lparam)]), "MouseMove")
      [] umsg \in {WM_LBUTTONDOWN, WM_LBUTTONDBLCLK} ->
           process_button(self, wparam, lparam, "Primary", TRUE, "MouseLeft")
      [] umsg = WM_LBUTTONUP ->
           process_button(self, wparam, lparam, "Primary", FALSE, "MouseLeft")
      [] umsg \in {WM_RBUTTONDOWN, WM_RBUTTONDBLCLK} ->
           process_button(self, wparam, lparam, "Secondary", TRUE, "MouseRight")
      [] umsg = WM_RBUTTONUP ->
           process_button(self, wparam, lparam, "Secondary", FALSE, "MouseRight")
      [] umsg \in {WM_MBUTTONDOWN, WM_MBUTTONDBLCLK} ->
           process_button(self, wparam, lparam, "Middle", TRUE, "MouseMiddle")
      [] umsg = WM_MBUTTONUP ->
           process_button(self, wparam, lparam, "Middle", FALSE, "MouseMiddle")
      [] umsg \in {WM_XBUTTONDOWN, WM_XBUTTONDBLCLK} ->
           process_xbutton(self, wparam, lparam, TRUE)
      [] umsg = WM_XBUTTONUP ->
           process_xbutton(self, wparam, lparam, FALSE)
      [] umsg \in {WM_UNICHAR, WM_CHAR} ->
           process_char(self, wparam)
      [] umsg \in {WM_MOUSEWHEEL, WM_MOUSEHWHEEL} ->
           process_wheel(self, wparam)
      [] umsg \in {WM_KEYDOWN, WM_SYSKEYDOWN} ->
           process_keydown(self, umsg, wparam, lparam, env)
      [] umsg \in {WM_KEYUP, WM_SYSKEYUP} ->
           process_keyup(self, umsg, wparam, lparam, env)
      [] OTHER -> process_default(self)

IsKeyMsg(umsg) == umsg \in {WM_KEYDOWN, WM_SYSKEYDOWN, WM_KEYUP, WM_SYSKEYUP}

\* Mutant of collect_input: the events are copied out, not taken.
collect_input_NoDrain(self, rect) ==
    [snapshot |-> [modifiers |-> IF self.modifiers.some THEN self.modifiers.v ELSE ModifiersNONE,
                   events |-> self.events,
                   screen_rect |-> rect],
     c |-> self]

\* rect is what GetClientRect answers for self.hwnd. The snapshot's time is
\* left out: no property of this model reads it.
collect_input(self, rect) ==
    [snapshot |-> [modifiers |-> IF self.modifiers.some THEN self.modifiers.v ELSE ModifiersNONE,
                   events |-> self.events,
                   screen_rect |-> rect],
     c |-> [self EXCEPT !.events = << >>]]

(***************************************************************************)
(* The environment: threads, windows, device contexts, GL contexts.        *)
(***************************************************************************)
\* The presentation thread and the window-procedure thread.
Threads == {1, 2}
\* The presentation hook runs on the first, the window procedure on the second.
Presenters == {1}
WndThreads == {2}
\* Window handles; 0 is the null handle.
Windows == {1, 2}
\* Device contexts, each owned by one window.
HDCs == {11, 12}
WindowFromDC(hdc) == hdc - 10
\* Messages the window procedure receives: <<umsg, wparam, lparam>>.
Msgs == { <<WM_MOUSEMOVE, 0, 65537>>, <<WM_KEYDOWN, 65, 0>>, <<WM_SIZE, 0, 0>>,
          <<WM_XBUTTONDOWN, 0, 0>> }
\* What the OS answers to process: GetAsyncKeyState for VK_CONTROL and
\* VK_LSHIFT, and the clipboard (no text, or a text: a sequence of code points).
DefaultEnv == [ctrl |-> FALSE, shift |-> FALSE, clip |-> None]
Envs == { DefaultEnv }

\* HGLRC values: no context, a context of the host's own, a context made by
\* wglCreateContext.
NullCtx == [kind |-> "null", id |-> 0]
HostCtx(t) == [kind |-> "host", id |-> t]
PrivCtx(n) == [kind |-> "priv", id |-> n]

VARIABLES
    hwnd,      \* OpenGLApp.hwnd: OnceCell<HWND>
    lock,      \* OpenGLApp.data's mutex: the thread holding it, 0 when free
    data,      \* OpenGLApp.data's content: Option<AppData>
    INIT,      \* poll_client_rect's static INIT: Once has run
    nCtx,      \* private contexts created so far
    curCtx,    \* the GL context current on each thread
    winSize,   \* each window's client-area size
    pc,        \* each thread's position
    loc,       \* each thread's arguments and locals
    call,      \* each thread's current or last call, as its caller sees it
    hist,      \* history: what the collector was fed and not yet asked for
    OLD_WND_PROC,  \* lib.rs: static mut OLD_WND_PROC: Option<WNDPROC>
    SWAP_INIT,     \* lib.rs: hk_wgl_swap_buffers's static INIT: Once
    GWLP_WNDPROC,  \* each window's window procedure, as SetWindowLongPtrW sets it
    hk,            \* each thread's frame of hk_wgl_swap_buffers or hk_wnd_proc
    hookCalls      \* history: the hooks' calls so far

hookVars == << OLD_WND_PROC, SWAP_INIT, GWLP_WNDPROC, hk, hookCalls >>

vars == << hwnd, lock, data, INIT, nCtx, curCtx, winSize, pc, loc, call, hist,
           OLD_WND_PROC, SWAP_INIT, GWLP_WNDPROC, hk, hookCalls >>

\* Window procedures: the one a window was created with, and lib.rs's
\* hk_wnd_proc.
WndProcOf(w) == [proc |-> "original", of |-> w]
HkWndProcPtr == [proc |-> "hk_wnd_proc", of |-> 0]

\* A thread's hook frame: the function it is in and where, its arguments,
\* SetWindowLongPtrW's return value, and what the hook did: the calls it
\* made in their order, whether the overlay consumed the message, and the
\* procedure the message was forwarded to.
NoFrame == [fn |-> "none", pos |-> "idle", hdc |-> 0, window |-> 0,
            msg |-> <<0, 0, 0>>, prev |-> None, trace |-> << >>,
            consumed |-> FALSE, forwarded |-> None, why |-> ""]

\* Presentation calls intercepted, messages sent to subclassed windows, runs
\* of the initialization closure, and whether init_default has returned.
NoHookCalls == [swaps |-> 0, sent |-> 0, inits |-> 0, initReturned |-> FALSE]

\* outer: where the thread's render stands while a call made from inside it
\* (by the UI closure, or by a message dispatched on the thread) is running.
NoLoc == [hdc |-> 0, window |-> 0, o_context |-> NullCtx, gl_context |-> NullCtx,
          msg |-> <<0, 0, 0>>, outer |-> ""]

NoCall == [op |-> "none", outcome |-> "none", why |-> "", ret |-> FALSE,
           entryCtx |-> NullCtx, readyAtStart |-> FALSE,
           afterInit |-> FALSE, afterWindowInit |-> FALSE,
           arg |-> 0, changed |-> FALSE, discarded |-> 0,
           snap |-> None, expected |-> << >>, again |-> "no",
           result |-> "none", queued |-> 0, painted |-> None, window |-> 0,
           shapes |-> "none", paints |-> 0, polls |-> 0,
           env |-> DefaultEnv, before |-> None, after |-> None,
           queries |-> 0, firstPaint |-> FALSE]

\* History: the events fed to the collector and not yet collected, the
\* collect_input calls since the last process, whether the last of them
\* returned events, which init calls have ended, how often the host state was
\* installed, whether the collector has processed a key message, and how many
\* messages it processed where it is exercised on its own, and the latest
\* client-area query made for the painter's cached size.
NoHist == [pending |-> << >>, collects |-> 0, lastNonEmpty |-> FALSE,
           initEnded |-> FALSE, windowInitEnded |-> FALSE, installs |-> 0,
           keyed |-> FALSE, processed |-> 0, lastQuery |-> None]

Init ==
    /\ hwnd = None
    /\ lock = 0
    /\ data = None
    /\ INIT = FALSE
    /\ nCtx = 0
    /\ curCtx \in { [t \in Threads |-> IF t \in Presenters THEN c ELSE NullCtx] :
                        c \in {NullCtx} \cup {HostCtx(p) : p \in Presenters} }
    /\ winSize = [w \in Windows |-> <<w, 1>>]
    /\ pc = [t \in Threads |-> "idle"]
    /\ loc = [t \in Threads |-> NoLoc]
    /\ call = [t \in Threads |-> NoCall]
    /\ hist = NoHist
    /\ OLD_WND_PROC = None
    /\ SWAP_INIT = "new"
    /\ GWLP_WNDPROC = [w \in Windows |-> WndProcOf(w)]
    /\ hk = [t \in Threads |-> NoFrame]
    /\ hookCalls = NoHookCalls

(***************************************************************************)
(* OS and library primitives.                                              *)
(***************************************************************************)
\* GetClientRect: the window's client rectangle, or failure (the RECT is
\* left as RECT::default()) for a handle that is no window.
GetClientRect(window) ==
    IF window \in Windows
    THEN [left |-> 0, top |-> 0, right |-> winSize[window][1], bottom |-> winSize[window][2]]
    ELSE [left |-> 0, top |-> 0, right |-> 0, bottom |-> 0]

\* A client-area query as the history keeps it: the window asked about and
\* the size it had.
Query(window) ==
    Some([window |-> window,
          size |-> << GetClientRect(window).right - GetClientRect(window).left,
                      GetClientRect(window).bottom - GetClientRect(window).top >>])

get_client_rect(window) ==
    LET rect == GetClientRect(window) IN
    << rect.right - rect.left, rect.bottom - rect.top >>

get_screen_rect(self) ==
    LET rect == GetClientRect(self.hwnd) IN
    [min |-> <<0, 0>>, max |-> << rect.right - rect.left, rect.bottom - rect.top >>]

\* wglMakeCurrent(hdc, c) on thread t: what may come of it. It cannot
\* succeed while c is current on another thread, and it may fail for the
\* driver's own reasons; a failed call is taken to leave the thread's
\* current context as it was.
wglMakeCurrent(t, c) ==
    { [ok |-> TRUE, cur |-> c] : x \in { u \in {0} : c = NullCtx \/ \A o \in Threads \ {t} : curCtx[o] # c } }
    \cup { [ok |-> FALSE, cur |-> curCtx[t]] }

\* Mutant of CanLock: the lock is taken whoever holds it.
CanLock_NoExclusion(t) == TRUE

\* parking_lot / spin Mutex::lock: taken only when no thread holds it.
CanLock(t) == lock = 0

is_ready == hwnd.some

\* A call of thread t as it starts.
StartCall(t, op) ==
    [NoCall EXCEPT !.op = op, !.outcome = "running",
                   !.entryCtx = curCtx[t], !.readyAtStart = is_ready,
                   !.afterInit = hist.initEnded,
                   !.afterWindowInit = hist.windowInitEnded]

Returned(c, ret) == [c EXCEPT !.outcome = "returned", !.ret = ret]
Panicked(c, why) == [c EXCEPT !.outcome = "panic", !.why = why]

Start(t, op, where, l) ==
    /\ pc[t] = "idle"
    /\ pc' = [pc EXCEPT ![t] = where]
    /\ loc' = [loc EXCEPT ![t] = l]
    /\ call' = [call EXCEPT ![t] = StartCall(t, op)]

\* The call of thread t ends: it returned, or it unwound with a panic. A
\* call made from inside render returns into render.
Done(t, c) ==
    IF loc[t].outer # "" /\ c.outcome = "returned"
    THEN /\ pc' = [pc EXCEPT ![t] = loc[t].outer]
         /\ loc' = [loc EXCEPT ![t].outer = ""]
         /\ call' = call
    ELSE /\ pc' = [pc EXCEPT ![t] = "done"]
         /\ loc' = [loc EXCEPT ![t] = NoLoc]
         /\ call' = [call EXCEPT ![t] = c]

\* The caller goes on after a call that returned; a panic ended its thread.
Return(t) ==
    /\ pc[t] = "done"
    /\ call[t].outcome = "returned"
    /\ pc' = [pc EXCEPT ![t] = "idle"]
    /\ call' = [call EXCEPT ![t] = NoCall]
    /\ UNCHANGED << hwnd, lock, data, INIT, nCtx, curCtx, winSize, loc, hist >>
    /\ UNCHANGED hookVars

(***************************************************************************)
(* app.rs: OpenGLApp::init_with_state_context (init_with_state,            *)
(* init_with_mutate and init_default build their Context and call it).     *)
(***************************************************************************)
InitEnded(window) ==
    [hist EXCEPT !.initEnded = TRUE,
                 !.windowInitEnded = @ \/ window # InvalidWindow]

\* Mutant of init_called: the guard never fires.
init_called_Never == FALSE

\* self.hwnd.get().is_some(), the guard of "You must call init only once"
init_called == hwnd.some

\* The two checks at the head of the call.
InitCheck(t, window) ==
    /\ pc[t] = "idle"
    /\ LET c == [StartCall(t, "init") EXCEPT !.arg = window] IN
       IF init_called
       THEN /\ Done(t, Panicked(c, "You must call init only once"))
            /\ hist' = InitEnded(window)
       ELSE IF window = InvalidWindow
       THEN /\ Done(t, Panicked(c, "Invalid output window descriptor"))
            /\ hist' = InitEnded(window)
       ELSE /\ pc' = [pc EXCEPT ![t] = "init_set"]
            /\ loc' = [loc EXCEPT ![t] = [NoLoc EXCEPT !.window = window]]
            /\ call' = [call EXCEPT ![t] = c]
            /\ hist' = hist
    /\ UNCHANGED << hwnd, lock, data, INIT, nCtx, curCtx, winSize >>
    /\ UNCHANGED hookVars

\* OnceCell::set: kept only when the cell is empty
OnceCell_set(cell, value) == IF cell.some THEN cell ELSE Some(value)

\* self.hwnd.set(window), then wglGetCurrentContext, wglCreateContext and
\* wglMakeCurrent, each unwrapped, and Painter::new.
InitSet(t) ==
    /\ pc[t] = "init_set"
    /\ hwnd' = OnceCell_set(hwnd, loc[t].window)
    /\ \/ /\ Done(t, Panicked(call[t], "wglCreateContext"))
          /\ hist' = InitEnded(loc[t].window)
          /\ UNCHANGED << nCtx, curCtx >>
       \/ /\ nCtx' = nCtx + 1
          /\ \E r \in wglMakeCurrent(t, PrivCtx(nCtx + 1)) :
               /\ curCtx' = [curCtx EXCEPT ![t] = r.cur]
               /\ IF r.ok
                  THEN /\ pc' = [pc EXCEPT ![t] = "init_install"]
                       /\ loc' = [loc EXCEPT ![t].o_context = curCtx[t],
                                             ![t].gl_context = PrivCtx(nCtx + 1)]
                       /\ UNCHANGED << call, hist >>
                  ELSE /\ Done(t, Panicked(call[t], "wglMakeCurrent"))
                       /\ hist' = InitEnded(loc[t].window)
    /\ UNCHANGED << lock, data, INIT, winSize >>
    /\ UNCHANGED hookVars

AppData(t, window, gl_context) ==
    [ui |-> t, state |-> t, gl_context |-> gl_context, window |-> window,
     painter |-> gl_context,
     input_collector |-> InputCollector_new(window),
     ctx |-> [wants_keyboard_input |-> FALSE, wants_pointer_input |-> FALSE],
     client_rect |-> <<0, 0>>]

\* *self.data.lock() = Some(AppData {..}): the guard lives for the statement.
InitInstall(t) ==
    /\ pc[t] = "init_install"
    /\ CanLock(t)
    /\ data' = Some(AppData(t, loc[t].window, loc[t].gl_context))
    /\ hist' = [hist EXCEPT !.installs = @ + 1, !.pending = << >>, !.collects = 0,
                            !.lastNonEmpty = FALSE, !.keyed = FALSE,
                            !.lastQuery = None]
    /\ pc' = [pc EXCEPT ![t] = "init_restore"]
    /\ UNCHANGED << hwnd, lock, INIT, nCtx, curCtx, winSize, loc, call >>
    /\ UNCHANGED hookVars

\* Mutant of InitRestore: the call returns with the private context current.
InitRestore_NoRestore(t) ==
    /\ pc[t] = "init_restore"
    /\ Done(t, Returned(call[t], TRUE))
    /\ hist' = InitEnded(loc[t].window)
    /\ UNCHANGED << hwnd, lock, data, INIT, nCtx, curCtx, winSize >>
    /\ UNCHANGED hookVars

\* wglMakeCurrent(hdc, o_context).unwrap()
InitRestore(t) ==
    /\ pc[t] = "init_restore"
    /\ \E r \in wglMakeCurrent(t, loc[t].o_context) :
         /\ curCtx' = [curCtx EXCEPT ![t] = r.cur]
         /\ Done(t, IF r.ok THEN Returned(call[t], TRUE) ELSE Panicked(call[t], "wglMakeCurrent"))
    /\ hist' = InitEnded(loc[t].window)
    /\ UNCHANGED << hwnd, lock, data, INIT, nCtx, winSize >>
    /\ UNCHANGED hookVars

(***************************************************************************)
(* app.rs: OpenGLApp::lock_data, as each caller runs it.                   *)
(***************************************************************************)
\* self.data.lock() and the expect! on its content: the thread goes on to
\* `next` holding the lock, or unwinds without it.
lock_data(t, next) ==
    /\ CanLock(t)
    /\ IF data.some
       THEN /\ lock' = t
            /\ pc' = [pc EXCEPT ![t] = next]
            /\ UNCHANGED << loc, call >>
       ELSE /\ lock' = lock
            /\ Done(t, Panicked(call[t], "You need to call init first"))
    /\ UNCHANGED << hwnd, data, INIT, nCtx, curCtx, winSize, hist >>
    /\ UNCHANGED hookVars

(***************************************************************************)
(* app.rs: OpenGLApp::render                                               *)
(***************************************************************************)
CallRender(t, hdc) ==
    /\ Start(t, "render", "render_lock", [NoLoc EXCEPT !.hdc = hdc])
    /\ UNCHANGED << hwnd, lock, data, INIT, nCtx, curCtx, winSize, hist >>
    /\ UNCHANGED hookVars

RenderLock(t) ==
    /\ pc[t] = "render_lock"
    /\ lock_data(t, "render_window")

\* Mutant of replace_window: the collector of the old window is kept.
replace_window_KeepCollector(d, window) ==
    [d EXCEPT !.window = window,
              !.client_rect = get_client_rect(window)]

\* this.window, this.input_collector and this.client_rect for a new window
replace_window(d, window) ==
    [d EXCEPT !.window = window,
              !.input_collector = InputCollector_new(window),
              !.client_rect = get_client_rect(window)]

\* The window owning hdc replaces this.window when it differs.
RenderWindow(t) ==
    /\ pc[t] = "render_window"
    /\ LET window == WindowFromDC(loc[t].hdc) IN
       IF window # data.v.window
       THEN /\ data' = Some(replace_window(data.v, window))
            /\ hist' = [hist EXCEPT !.pending = << >>, !.collects = 0, !.lastNonEmpty = FALSE,
                                    !.keyed = FALSE,
                                    !.lastQuery = Query(window)]
            /\ call' = [call EXCEPT ![t].changed = TRUE,
                                    ![t].queries = @ + 1,
                                    ![t].discarded = Len(data.v.input_collector.events)]
       ELSE UNCHANGED << data, hist, call >>
    /\ pc' = [pc EXCEPT ![t] = "render_context"]
    /\ UNCHANGED << hwnd, lock, INIT, nCtx, curCtx, winSize, loc >>
    /\ UNCHANGED hookVars

\* o_context = wglGetCurrentContext(); wglMakeCurrent(hdc, this.gl_context).unwrap()
RenderContext(t) ==
    /\ pc[t] = "render_context"
    /\ \E r \in wglMakeCurrent(t, data.v.gl_context) :
         /\ curCtx' = [curCtx EXCEPT ![t] = r.cur]
         /\ IF r.ok
            THEN /\ pc' = [pc EXCEPT ![t] = "render_run"]
                 /\ loc' = [loc EXCEPT ![t].o_context = curCtx[t]]
                 /\ UNCHANGED << lock, call >>
            ELSE /\ lock' = 0
                 /\ Done(t, Panicked(call[t], "wglMakeCurrent"))
    /\ UNCHANGED << hwnd, data, INIT, nCtx, winSize, hist >>
    /\ UNCHANGED hookVars

\* What one pass of the UI engine over the caller's closure may come to: the
\* closure panics, or the pass produces no shape, or some.
RunOutcomes == {"panic", "empty", "shapes"}

\* Mutant of after_run: the paint is not skipped for an empty shape set.
after_run_AlwaysPaint(o) == "render_paint"

\* if output.shapes.is_empty() { restore; return }: where render goes on.
after_run(o) == IF o = "empty" THEN "render_restore" ELSE "render_paint"

\* this.ctx.run(this.input_collector.collect_input(&this.ctx), |ctx| (this.ui)(..))
RenderRun(t) ==
    /\ pc[t] = "render_run"
    /\ LET col == collect_input(data.v.input_collector, get_screen_rect(data.v.input_collector)) IN
       \E o \in RunOutcomes, kb \in BOOLEAN, ptr \in BOOLEAN :
         /\ data' = Some([data.v EXCEPT !.input_collector = col.c,
                                        !.ctx = [wants_keyboard_input |-> kb,
                                                 wants_pointer_input |-> ptr]])
         /\ hist' = [hist EXCEPT !.pending = << >>,
                                 !.collects = IF @ < 2 THEN @ + 1 ELSE @,
                                 !.lastNonEmpty = (col.snapshot.events # << >>)]
         /\ LET c == [call[t] EXCEPT !.snap = Some(col.snapshot), !.expected = hist.pending,
                                     !.shapes = o,
                                     !.again = IF hist.collects = 0 THEN "no"
                                               ELSE IF hist.lastNonEmpty THEN "afterEvents"
                                               ELSE "afterEmpty"] IN
            IF o = "panic"
            THEN /\ lock' = 0
                 /\ Done(t, Panicked(c, "ui"))
            ELSE /\ pc' = [pc EXCEPT ![t] = after_run(o)]
                 /\ call' = [call EXCEPT ![t] = c]
                 /\ UNCHANGED << lock, loc >>
    /\ UNCHANGED << hwnd, INIT, nCtx, curCtx, winSize >>
    /\ UNCHANGED hookVars

\* Mutant of poll_client_rect: the cached size is handed on as it is.
poll_client_rect_Never(d) == d

\* poll_client_rect: the first call in the process queries the client area.
poll_client_rect(d) ==
    IF INIT THEN d ELSE [d EXCEPT !.client_rect = get_client_rect(d.window)]

\* poll_client_rect, tessellate and painter.paint_and_update_textures
RenderPaint(t) ==
    /\ pc[t] = "render_paint"
    /\ LET d == poll_client_rect(data.v)
           c == [call[t] EXCEPT !.paints = @ + 1, !.polls = @ + 1,
                                !.queries = IF INIT THEN @ ELSE @ + 1,
                                !.firstPaint = ~INIT,
                                !.painted = Some([client_rect |-> d.client_rect,
                                                     window |-> d.window,
                                                     query |-> IF INIT THEN hist.lastQuery
                                                               ELSE Query(d.window),
                                                     context |-> curCtx[t],
                                                     gl_context |-> d.gl_context,
                                                     holder |-> lock])]
       IN  /\ data' = Some(d)
           /\ INIT' = TRUE
           /\ \/ /\ pc' = [pc EXCEPT ![t] = "render_restore"]
                 /\ call' = [call EXCEPT ![t] = c]
                 /\ UNCHANGED << lock, loc >>
              \/ /\ lock' = 0
                 /\ Done(t, Panicked(c, "paint"))
    /\ hist' = IF INIT THEN hist ELSE [hist EXCEPT !.lastQuery = Query(data.v.window)]
    /\ UNCHANGED << hwnd, nCtx, curCtx, winSize >>
    /\ UNCHANGED hookVars

\* wglMakeCurrent(hdc, o_context).unwrap(), on either path
RenderRestore(t) ==
    /\ pc[t] = "render_restore"
    /\ \E r \in wglMakeCurrent(t, loc[t].o_context) :
         /\ curCtx' = [curCtx EXCEPT ![t] = r.cur]
         /\ Done(t, IF r.ok THEN Returned(call[t], TRUE) ELSE Panicked(call[t], "wglMakeCurrent"))
    /\ lock' = 0
    /\ UNCHANGED << hwnd, data, INIT, nCtx, winSize, hist >>
    /\ UNCHANGED hookVars

(***************************************************************************)
(* app.rs: OpenGLApp::wnd_proc                                             *)
(***************************************************************************)
CallWndProc(t, msg) ==
    /\ data.some => Len(data.v.input_collector.events) < MaxEvents
    /\ Start(t, "wnd_proc", "wnd_lock", [NoLoc EXCEPT !.msg = msg])
    /\ UNCHANGED << hwnd, lock, data, INIT, nCtx, curCtx, winSize, hist >>
    /\ UNCHANGED hookVars

WndLock(t) ==
    /\ pc[t] = "wnd_lock"
    /\ lock_data(t, "wnd_process")

\* The events a message gives rise to, whatever the queue holds: what
\* process appends for it to an empty queue.
Emitted(self, msg, env) ==
    process([self EXCEPT !.events = << >>], msg[1], msg[2], msg[3], env).c.events

\* this.input_collector.process(umsg, wparam.0, lparam.0)
WndProcess(t) ==
    /\ pc[t] = "wnd_process"
    /\ \E env \in Envs :
         LET old == data.v.input_collector
             p == process(old, loc[t].msg[1], loc[t].msg[2], loc[t].msg[3], env)
             c == [call[t] EXCEPT !.result = p.result,
                                  !.queued = Len(p.c.events) - Len(old.events)]
         IN  /\ data' = Some([data.v EXCEPT !.input_collector = p.c])
             /\ hist' = [hist EXCEPT !.pending = @ \o Emitted(old, loc[t].msg, env),
                                     !.collects = 0,
                                     !.keyed = @ \/ IsKeyMsg(loc[t].msg[1])]
             /\ IF p.panic
                THEN /\ lock' = 0
                     /\ Done(t, Panicked(c, "unreachable"))
                ELSE /\ pc' = [pc EXCEPT ![t] = "wnd_return"]
                     /\ call' = [call EXCEPT ![t] = c]
                     /\ UNCHANGED << lock, loc >>
    /\ UNCHANGED << hwnd, INIT, nCtx, curCtx, winSize >>
    /\ UNCHANGED hookVars

\* Mutant of wnd_proc_result: whether process recognized the message.
wnd_proc_result_Recognized(d, result) == result # "Unknown"

\* What wnd_proc returns.
wnd_proc_result(d, result) == d.ctx.wants_keyboard_input \/ d.ctx.wants_pointer_input

\* The WM_SIZE refresh of client_rect, and the result.
WndReturn(t) ==
    /\ pc[t] = "wnd_return"
    /\ data' = IF loc[t].msg[1] = WM_SIZE
               THEN Some([data.v EXCEPT !.client_rect = get_client_rect(data.v.window)])
               ELSE data
    /\ hist' = IF loc[t].msg[1] = WM_SIZE
               THEN [hist EXCEPT !.lastQuery = Query(data.v.window)] ELSE hist
    /\ lock' = 0
    /\ Done(t, Returned(call[t], wnd_proc_result(data.v, call[t].result)))
    /\ UNCHANGED << hwnd, INIT, nCtx, curCtx, winSize >>
    /\ UNCHANGED hookVars

(***************************************************************************)
(* app.rs: OpenGLApp::get_window                                           *)
(***************************************************************************)
CallGetWindow(t) ==
    /\ Start(t, "get_window", "getwin_lock", NoLoc)
    /\ UNCHANGED << hwnd, lock, data, INIT, nCtx, curCtx, winSize, hist >>
    /\ UNCHANGED hookVars

GetWindowLock(t) ==
    /\ pc[t] = "getwin_lock"
    /\ lock_data(t, "getwin_read")

GetWindowRead(t) ==
    /\ pc[t] = "getwin_read"
    /\ lock' = 0
    /\ Done(t, [Returned(call[t], TRUE) EXCEPT !.window = data.v.window])
    /\ UNCHANGED << hwnd, data, INIT, nCtx, curCtx, winSize, hist >>
    /\ UNCHANGED hookVars

(***************************************************************************)
(* The system.                                                             *)
(***************************************************************************)
\* The presentation hook's thread initializes and renders, the window's
\* message thread runs the window procedure, any thread asks for the window.
Next ==
    \/ \E t \in Presenters, w \in Windows \cup {InvalidWindow} : InitCheck(t, w)
    \/ \E t \in Presenters : InitSet(t)
    \/ \E t \in Presenters : InitInstall(t)
    \/ \E t \in Presenters : InitRestore(t)
    \/ \E t \in Presenters, hdc \in HDCs : CallRender(t, hdc)
    \/ \E t \in Presenters : RenderLock(t)
    \/ \E t \in Presenters : RenderWindow(t)
    \/ \E t \in Presenters : RenderContext(t)
    \/ \E t \in Presenters : RenderRun(t)
    \/ \E t \in Presenters : RenderPaint(t)
    \/ \E t \in Presenters : RenderRestore(t)
    \/ \E t \in WndThreads, m \in Msgs : CallWndProc(t, m)
    \/ \E t \in WndThreads : WndLock(t)
    \/ \E t \in WndThreads : WndProcess(t)
    \/ \E t \in WndThreads : WndReturn(t)
    \/ \E t \in Threads : CallGetWindow(t)
    \/ \E t \in Threads : GetWindowLock(t)
    \/ \E t \in Threads : GetWindowRead(t)
    \/ \E t \in Threads : Return(t)

Spec == Init /\ [][Next]_vars

\* Initialization alone, called from any thread.
NextInit ==
    \/ \E t \in Threads, w \in Windows \cup {InvalidWindow} : InitCheck(t, w)
    \/ \E t \in Threads : InitSet(t)
    \/ \E t \in Threads : InitInstall(t)
    \/ \E t \in Threads : InitRestore(t)
    \/ \E t \in Threads : Return(t)

SpecInit == Init /\ [][NextInit]_vars

(***************************************************************************)
(* app.rs: OpenGLApp::lock_state, and the calls a thread makes while it is *)
(* inside render: its UI closure may call lock_state or get_window, and a  *)
(* message dispatched on the thread runs wnd_proc.                         *)
(***************************************************************************)
CallLockState(t) ==
    /\ Start(t, "lock_state", "state_lock", NoLoc)
    /\ UNCHANGED << hwnd, lock, data, INIT, nCtx, curCtx, winSize, hist >>
    /\ UNCHANGED hookVars

\* MutexGuard::map(self.data.lock(), |app| &mut app.as_mut().unwrap().state):
\* the caller gets the guard, or the unwrap panics and the guard is dropped.
StateLock(t) ==
    /\ pc[t] = "state_lock"
    /\ CanLock(t)
    /\ IF data.some
       THEN /\ lock' = t
            /\ pc' = [pc EXCEPT ![t] = "state_held"]
            /\ UNCHANGED << loc, call >>
       ELSE /\ lock' = lock
            /\ Done(t, Panicked(call[t], "unwrap on None"))
    /\ UNCHANGED << hwnd, data, INIT, nCtx, curCtx, winSize, hist >>
    /\ UNCHANGED hookVars

\* The caller drops the guard lock_state gave it.
StateDrop(t) ==
    /\ pc[t] = "state_held"
    /\ lock' = 0
    /\ Done(t, Returned(call[t], TRUE))
    /\ UNCHANGED << hwnd, data, INIT, nCtx, curCtx, winSize, hist >>
    /\ UNCHANGED hookVars

\* Where each call waits for the mutex of OpenGLApp.data.
LockWait(op) ==
    CASE op = "render" -> "render_lock"
      [] op = "wnd_proc" -> "wnd_lock"
      [] op = "get_window" -> "getwin_lock"
      [] OTHER -> "state_lock"

LockWaits == { LockWait(op) : op \in {"render", "wnd_proc", "get_window", "lock_state"} }

\* While the thread runs the UI pass of render, holding the guard render
\* took, a call of op starts on it.
Reenter(t, op, msg) ==
    /\ pc[t] = "render_run"
    /\ loc[t].outer = ""
    /\ pc' = [pc EXCEPT ![t] = LockWait(op)]
    /\ loc' = [loc EXCEPT ![t].outer = "render_run", ![t].msg = msg]
    /\ UNCHANGED << hwnd, lock, data, INIT, nCtx, curCtx, winSize, call, hist >>
    /\ UNCHANGED hookVars

\* What a thread does by itself once a call has started on it, the waits
\* for the mutex apart.
Proceed(t) ==
    \/ InitSet(t) \/ InitRestore(t)
    \/ RenderWindow(t) \/ RenderContext(t) \/ RenderRun(t) \/ RenderPaint(t) \/ RenderRestore(t)
    \/ WndProcess(t) \/ WndReturn(t)
    \/ GetWindowRead(t)
    \/ StateDrop(t)
    \/ Return(t)

\* The acquisitions of the mutex.
Acquire(t) ==
    \/ InitInstall(t) \/ RenderLock(t) \/ WndLock(t) \/ GetWindowLock(t) \/ StateLock(t)

\* The presentation thread initializes and renders one window, the message
\* thread runs the window procedure, both ask for the window and the state;
\* inside render the same calls may start on the rendering thread.
NextLock ==
    \/ \E t \in Presenters : InitCheck(t, 1)
    \/ \E t \in Presenters : CallRender(t, 11)
    \/ \E t \in WndThreads : CallWndProc(t, <<WM_SIZE, 0, 0>>)
    \/ \E t \in Threads : CallGetWindow(t)
    \/ \E t \in Threads : CallLockState(t)
    \/ \E t \in Presenters, op \in {"get_window", "lock_state"} : Reenter(t, op, <<0, 0, 0>>)
    \/ \E t \in Presenters : Reenter(t, "wnd_proc", <<WM_SIZE, 0, 0>>)
    \/ \E t \in Threads : Proceed(t)
    \/ \E t \in Threads : Acquire(t)

\* A thread that can go on does, and a thread waiting for the mutex gets it
\* if it is free again and again (parking_lot's mutex is eventually fair).
SpecLock ==
    /\ Init
    /\ [][NextLock]_vars
    /\ \A t \in Threads : WF_vars(Proceed(t)) /\ SF_vars(Acquire(t))

(***************************************************************************)
(* example-wnd/src/lib.rs: the hooks of the example, hk_wgl_swap_buffers   *)
(* on any thread that presents and hk_wnd_proc on the window's message     *)
(* thread. The calls they make into OpenGLApp run as the actions above.    *)
(***************************************************************************)
\* Messages sent to a subclassed window.
HookMsgs == { <<WM_MOUSEMOVE, 0, 65537>>, <<WM_SIZE, 0, 0>> }

\* Mutant of call_once: every caller runs the closure.
call_once_Unguarded(state) == "run"

\* std::sync::Once::call_once: the first caller runs the closure, a caller
\* that finds it running waits for it, a later one skips it, and a caller
\* that finds it poisoned by a panic of the closure panics.
call_once(state) ==
    CASE state = "new" -> "run"
      [] state = "running" -> "wait"
      [] state = "done" -> "skip"
      [] OTHER -> "panic"

\* No hook is running on the thread.
HookIdle(t) == hk[t].pos \in {"idle", "ret"} /\ pc[t] = "idle"

\* The call into OpenGLApp that the hook made has returned.
Resume(t) ==
    /\ pc' = [pc EXCEPT ![t] = "idle"]
    /\ call' = [call EXCEPT ![t] = NoCall]

\* The host presents: let window = WindowFromDC(hdc)
HkSwapEnter(t, hdc) ==
    /\ HookIdle(t)
    /\ hookCalls.swaps < MaxSwaps
    /\ hk' = [hk EXCEPT ![t] = [NoFrame EXCEPT !.fn = "hk_wgl_swap_buffers", !.pos = "once",
                                                !.hdc = hdc, !.window = WindowFromDC(hdc)]]
    /\ hookCalls' = [hookCalls EXCEPT !.swaps = @ + 1]
    /\ UNCHANGED << hwnd, lock, data, INIT, nCtx, curCtx, winSize, pc, loc, call, hist,
                    OLD_WND_PROC, SWAP_INIT, GWLP_WNDPROC >>

\* INIT.call_once(|| { .. })
HkSwapOnce(t) ==
    /\ hk[t].pos = "once"
    /\ call_once(SWAP_INIT) # "wait"
    /\ IF call_once(SWAP_INIT) = "run"
       THEN /\ SWAP_INIT' = "running"
            /\ hk' = [hk EXCEPT ![t].pos = "init"]
            /\ hookCalls' = [hookCalls EXCEPT !.inits = @ + 1]
       ELSE IF call_once(SWAP_INIT) = "skip"
       THEN /\ hk' = [hk EXCEPT ![t].pos = "get_window"]
            /\ UNCHANGED << SWAP_INIT, hookCalls >>
       ELSE /\ hk' = [hk EXCEPT ![t].pos = "panicked", ![t].why = "Once poisoned"]
            /\ UNCHANGED << SWAP_INIT, hookCalls >>
    /\ UNCHANGED << hwnd, lock, data, INIT, nCtx, curCtx, winSize, pc, loc, call, hist,
                    OLD_WND_PROC, GWLP_WNDPROC >>

\* APP.init_default(hdc, window, ui)
HkSwapInit(t) ==
    /\ hk[t].pos = "init"
    /\ InitCheck(t, hk[t].window)

\* init_default has returned, or its panic unwinds through call_once.
HkSwapAfterInit(t) ==
    /\ hk[t].pos = "init"
    /\ pc[t] = "done"
    /\ IF call[t].outcome = "returned"
       THEN /\ Resume(t)
            /\ hk' = [hk EXCEPT ![t].pos = "subclass"]
            /\ hookCalls' = [hookCalls EXCEPT !.initReturned = TRUE]
            /\ UNCHANGED SWAP_INIT
       ELSE /\ hk' = [hk EXCEPT ![t].pos = "panicked", ![t].why = call[t].why]
            /\ SWAP_INIT' = "poisoned"
            /\ UNCHANGED << pc, call, hookCalls >>
    /\ UNCHANGED << hwnd, lock, data, INIT, nCtx, curCtx, winSize, loc, hist,
                    OLD_WND_PROC, GWLP_WNDPROC >>

\* SetWindowLongPtrW(window, GWLP_WNDPROC, hk_wnd_proc): the window's
\* procedure is replaced and the previous one returned.
SetWindowLongPtrW(window, proc) ==
    IF window \in Windows THEN [GWLP_WNDPROC EXCEPT ![window] = proc] ELSE GWLP_WNDPROC

HkSwapSubclass(t) ==
    /\ hk[t].pos = "subclass"
    /\ GWLP_WNDPROC' = SetWindowLongPtrW(hk[t].window, HkWndProcPtr)
    /\ hk' = [hk EXCEPT ![t].pos = "assign", ![t].prev = Some(GWLP_WNDPROC[hk[t].window])]
    /\ UNCHANGED << hwnd, lock, data, INIT, nCtx, curCtx, winSize, pc, loc, call, hist,
                    OLD_WND_PROC, SWAP_INIT, hookCalls >>

\* OLD_WND_PROC = Some(transmute(..)), and the closure of call_once ends.
HkSwapAssign(t) ==
    /\ hk[t].pos = "assign"
    /\ OLD_WND_PROC' = hk[t].prev
    /\ SWAP_INIT' = "done"
    /\ hk' = [hk EXCEPT ![t].pos = "get_window"]
    /\ UNCHANGED << hwnd, lock, data, INIT, nCtx, curCtx, winSize, pc, loc, call, hist,
                    GWLP_WNDPROC, hookCalls >>

\* APP.get_window()
HkSwapGetWindow(t) ==
    /\ hk[t].pos = "get_window"
    /\ CallGetWindow(t)

\* if !APP.get_window().eq(&window) { SetWindowLongPtrW(..); }: the return
\* value is dropped.
HkSwapResubclass(t) ==
    /\ hk[t].pos = "get_window"
    /\ pc[t] = "done"
    /\ IF call[t].outcome = "returned"
       THEN /\ Resume(t)
            /\ hk' = [hk EXCEPT ![t].pos = "render"]
            /\ GWLP_WNDPROC' = IF call[t].window # hk[t].window
                               THEN SetWindowLongPtrW(hk[t].window, HkWndProcPtr)
                               ELSE GWLP_WNDPROC
       ELSE /\ hk' = [hk EXCEPT ![t].pos = "panicked", ![t].why = call[t].why]
            /\ UNCHANGED << pc, call, GWLP_WNDPROC >>
    /\ UNCHANGED << hwnd, lock, data, INIT, nCtx, curCtx, winSize, loc, hist,
                    OLD_WND_PROC, SWAP_INIT, hookCalls >>

\* APP.render(hdc)
HkSwapRender(t) ==
    /\ hk[t].pos = "render"
    /\ CallRender(t, hk[t].hdc)

\* render has returned, or its panic ends the hook.
HkSwapAfterRender(t) ==
    /\ hk[t].pos = "render"
    /\ pc[t] = "done"
    /\ IF call[t].outcome = "returned"
       THEN /\ Resume(t)
            /\ hk' = [hk EXCEPT ![t].pos = "original", ![t].trace = Append(@, "render")]
       ELSE /\ hk' = [hk EXCEPT ![t].pos = "panicked", ![t].why = call[t].why,
                                ![t].trace = Append(@, "render")]
            /\ UNCHANGED << pc, call >>
    /\ UNCHANGED << hwnd, lock, data, INIT, nCtx, curCtx, winSize, loc, hist,
                    OLD_WND_PROC, SWAP_INIT, GWLP_WNDPROC, hookCalls >>

\* WglSwapBuffersHook.call(hdc): the host's own presentation function.
HkSwapOriginal(t) ==
    /\ hk[t].pos = "original"
    /\ hk' = [hk EXCEPT ![t].pos = "ret", ![t].trace = Append(@, "original")]
    /\ UNCHANGED << hwnd, lock, data, INIT, nCtx, curCtx, winSize, pc, loc, call, hist,
                    OLD_WND_PROC, SWAP_INIT, GWLP_WNDPROC, hookCalls >>

\* A message is sent to a window whose procedure is hk_wnd_proc.
HkWndEnter(t, window, msg) ==
    /\ HookIdle(t)
    /\ hookCalls.sent < MaxSent
    /\ GWLP_WNDPROC[window] = HkWndProcPtr
    /\ hk' = [hk EXCEPT ![t] = [NoFrame EXCEPT !.fn = "hk_wnd_proc", !.pos = "wnd_proc",
                                                !.window = window, !.msg = msg]]
    /\ hookCalls' = [hookCalls EXCEPT !.sent = @ + 1]
    /\ UNCHANGED << hwnd, lock, data, INIT, nCtx, curCtx, winSize, pc, loc, call, hist,
                    OLD_WND_PROC, SWAP_INIT, GWLP_WNDPROC >>

\* APP.wnd_proc(msg, wparam, lparam)
HkWndProc(t) ==
    /\ hk[t].pos = "wnd_proc"
    /\ CallWndProc(t, hk[t].msg)

\* if egui_wants_input { return LRESULT(1); }
\* CallWindowProcW(OLD_WND_PROC.unwrap(), hwnd, msg, wparam, lparam)
HkWndForward(t) ==
    /\ hk[t].pos = "wnd_proc"
    /\ pc[t] = "done"
    /\ IF call[t].outcome # "returned"
       THEN /\ hk' = [hk EXCEPT ![t].pos = "panicked", ![t].why = call[t].why]
            /\ UNCHANGED << pc, call >>
       ELSE /\ Resume(t)
            /\ hk' = IF call[t].ret
                     THEN [hk EXCEPT ![t].pos = "ret", ![t].consumed = TRUE]
                     ELSE IF OLD_WND_PROC.some
                     THEN [hk EXCEPT ![t].pos = "ret", ![t].forwarded = OLD_WND_PROC]
                     ELSE [hk EXCEPT ![t].pos = "panicked",
                                     ![t].why = "OLD_WND_PROC.unwrap() on None"]
    /\ UNCHANGED << hwnd, lock, data, INIT, nCtx, curCtx, winSize, loc, hist,
                    OLD_WND_PROC, SWAP_INIT, GWLP_WNDPROC, hookCalls >>

\* Any thread may present; messages reach the window's message thread.
NextHook ==
    \/ \E t \in Threads, hdc \in HDCs : HkSwapEnter(t, hdc)
    \/ \E t \in Threads : HkSwapOnce(t)
    \/ \E t \in Threads : HkSwapInit(t)
    \/ \E t \in Threads : InitSet(t)
    \/ \E t \in Threads : InitInstall(t)
    \/ \E t \in Threads : InitRestore(t)
    \/ \E t \in Threads : HkSwapAfterInit(t)
    \/ \E t \in Threads : HkSwapSubclass(t)
    \/ \E t \in Threads : HkSwapAssign(t)
    \/ \E t \in Threads : HkSwapGetWindow(t)
    \/ \E t \in Threads : GetWindowLock(t)
    \/ \E t \in Threads : GetWindowRead(t)
    \/ \E t \in Threads : HkSwapResubclass(t)
    \/ \E t \in Threads : HkSwapRender(t)
    \/ \E t \in Threads : RenderLock(t)
    \/ \E t \in Threads : RenderWindow(t)
    \/ \E t \in Threads : RenderContext(t)
    \/ \E t \in Threads : RenderRun(t)
    \/ \E t \in Threads : RenderPaint(t)
    \/ \E t \in Threads : RenderRestore(t)
    \/ \E t \in Threads : HkSwapAfterRender(t)
    \/ \E t \in Threads : HkSwapOriginal(t)
    \/ \E t \in WndThreads, w \in Windows, m \in HookMsgs : HkWndEnter(t, w, m)
    \/ \E t \in WndThreads : HkWndProc(t)
    \/ \E t \in WndThreads : WndLock(t)
    \/ \E t \in WndThreads : WndProcess(t)
    \/ \E t \in WndThreads : WndReturn(t)
    \/ \E t \in WndThreads : HkWndForward(t)

SpecHook == Init /\ [][NextHook]_vars

(***************************************************************************)
(* The input collector on its own: the window procedure's thread feeds it  *)
(* one message after the other, the presenter's thread collects.           *)
(***************************************************************************)
\* Key state and clipboard as a key message may find them.
InputEnvs ==
    { DefaultEnv,
      [ctrl |-> TRUE, shift |-> FALSE, clip |-> None],
      [ctrl |-> TRUE, shift |-> FALSE, clip |-> Some(<< >>)],
      [ctrl |-> TRUE, shift |-> FALSE, clip |-> Some(<<104, 105>>)],
      [ctrl |-> FALSE, shift |-> TRUE, clip |-> Some(<<104, 105>>)],
      [ctrl |-> TRUE, shift |-> TRUE, clip |-> Some(<<104, 105>>)] }

\* Only the key arms of process ask the OS anything.
EnvsFor(umsg) == IF IsKeyMsg(umsg) THEN InputEnvs ELSE { DefaultEnv }

PointerMsgIds ==
    { WM_MOUSEMOVE, WM_LBUTTONDOWN, WM_LBUTTONUP, WM_LBUTTONDBLCLK,
      WM_RBUTTONDOWN, WM_RBUTTONUP, WM_RBUTTONDBLCLK,
      WM_MBUTTONDOWN, WM_MBUTTONUP, WM_MBUTTONDBLCLK }
XButtonMsgIds == { WM_XBUTTONDOWN, WM_XBUTTONUP, WM_XBUTTONDBLCLK }
WheelMsgIds == { WM_MOUSEWHEEL, WM_MOUSEHWHEEL }
CharMsgIds == { WM_CHAR, WM_UNICHAR }
KeyMsgIds == { WM_KEYDOWN, WM_SYSKEYDOWN, WM_KEYUP, WM_SYSKEYUP }

\* lparam values: a negative integer stands for the isize with the same
\* two's-complement bits, all bits above bit 31 set.
\* (1,1); x = 0xFFFF; x = 0x8000; y = 0x8000 with the upper bits set;
\* y = 0xFFFF with the upper bits set.
PosParams == { 65537, 65535, 32768, -2147483647 - 1, -65536 }

\* wparam values; a negative integer stands for the usize with the same
\* two's-complement bits.
ButtonParams == { 0, MK_CONTROL, MK_CONTROL + MK_SHIFT }
\* hi word XBUTTON1; XBUTTON2; XBUTTON2 with ctrl; neither; both.
XButtonParams == { 65536, 131072, 131072 + MK_CONTROL, 0, 196608 }
\* d = 120, -120, 120 with ctrl, -120 with ctrl, 0, 0 with ctrl, 1.
WheelParams ==
    { WHEEL_DELTA * 65536, -(WHEEL_DELTA * 65536), WHEEL_DELTA * 65536 + MK_CONTROL,
      -(WHEEL_DELTA * 65536) + MK_CONTROL, 0, MK_CONTROL, 65536 }
\* 'a'; carriage return; 'no character'; a surrogate; past the last scalar
\* value; the euro sign.
CharParams == { 97, 13, 65535, 55296, 1114112, 8364 }
\* The ends of the three ranges, two listed codes, codes next to the ranges,
\* VK_SHIFT, and two codes beyond 16 bits.
KeyParams ==
    { 48, 57, 65, 90, 112, 131, VK_DOWN, VK_DELETE, 47, 58, 132, 16,
      65536 + VK_DOWN, 65536 + 48 }
\* C, V, X
EditKeyParams == { 67, 86, 88 }
\* the repeat count's bit 14 clear and set; bit 30 (the previous key state)
RepeatParams == { 0, KF_REPEAT, 1073741824 }

\* The messages the collector is fed: <<umsg, wparam, lparam>>.
InputMsgs ==
    { <<m, 0, l>> : m \in PointerMsgIds, l \in PosParams }
    \cup { <<m, w, 65537>> : m \in PointerMsgIds, w \in ButtonParams }
    \cup { <<m, 65536, l>> : m \in XButtonMsgIds, l \in PosParams }
    \cup { <<m, w, 65537>> : m \in XButtonMsgIds, w \in XButtonParams }
    \cup { <<m, w, 0>> : m \in WheelMsgIds, w \in WheelParams }
    \cup { <<m, w, 0>> : m \in CharMsgIds, w \in CharParams }
    \cup { <<WM_KEYDOWN, w, 0>> : w \in KeyParams }
    \cup { <<WM_SYSKEYUP, w, 0>> : w \in {65, 16} }
    \cup { <<m, w, 0>> : m \in KeyMsgIds, w \in EditKeyParams }
    \cup { <<m, 65, l>> : m \in {WM_KEYDOWN, WM_KEYUP}, l \in RepeatParams }
    \cup { <<WM_SIZE, 0, 0>>, <<0, 5, 7>>, <<15, 0, 0>>, <<262, 65, 0>>,
           <<527, MK_CONTROL, 65537>> }

\* Collectors the host's collector may be found as: fresh, or after a first
\* pointer move, or after a key message with a queued pointer move or none.
SeedCollectors ==
    { [hwnd |-> 1, events |-> e, modifiers |-> m, keyed |-> m.some] :
        e \in { << >>, << [type |-> "PointerMoved", pos |-> <<7, 9>>] >> },
        m \in { None, Some(ModifiersNONE),
                 Some([alt |-> TRUE, ctrl |-> FALSE, shift |-> TRUE,
                       mac_cmd |-> FALSE, command |-> FALSE]) } }

\* The host after a successful init, its collector one of SeedCollectors.
InitInput ==
    /\ hwnd = Some(1)
    /\ lock = 0
    /\ \E seed \in SeedCollectors :
         /\ data = Some([AppData(1, 1, PrivCtx(1)) EXCEPT
                            !.input_collector = [hwnd |-> seed.hwnd, events |-> seed.events,
                                                 modifiers |-> seed.modifiers]])
         /\ hist = [NoHist EXCEPT !.pending = seed.events, !.keyed = seed.keyed,
                                  !.initEnded = TRUE, !.windowInitEnded = TRUE,
                                  !.installs = 1]
    /\ INIT = FALSE
    /\ nCtx = 1
    /\ curCtx = [t \in Threads |-> NullCtx]
    /\ winSize = [w \in Windows |-> <<w, 1>>]
    /\ pc = [t \in Threads |-> "idle"]
    /\ loc = [t \in Threads |-> NoLoc]
    /\ call = [t \in Threads |-> NoCall]
    /\ OLD_WND_PROC = None
    /\ SWAP_INIT = "new"
    /\ GWLP_WNDPROC = [w \in Windows |-> WndProcOf(w)]
    /\ hk = [t \in Threads |-> NoFrame]
    /\ hookCalls = NoHookCalls

\* input_collector.process(umsg, wparam, lparam): the call, its arguments,
\* what the OS answered, and the collector before and after it. Only the
\* latest call on the collector is kept on record.
InputProcess(t, msg, env) ==
    /\ hist.processed < MaxProcessed
    /\ LET old == data.v.input_collector
           p == process(old, msg[1], msg[2], msg[3], env)
       IN  /\ data' = Some([data.v EXCEPT !.input_collector = p.c])
           /\ hist' = [hist EXCEPT !.pending = @ \o Emitted(old, msg, env),
                                   !.collects = 0,
                                   !.keyed = @ \/ IsKeyMsg(msg[1]),
                                   !.processed = @ + 1]
           /\ loc' = [o \in Threads |-> IF o = t THEN [NoLoc EXCEPT !.msg = msg] ELSE NoLoc]
           /\ call' = [[o \in Threads |-> NoCall] EXCEPT ![t] =
                         [NoCall EXCEPT !.op = "process",
                                        !.outcome = IF p.panic THEN "panic" ELSE "returned",
                                        !.why = IF p.panic THEN "unreachable" ELSE "",
                                        !.result = p.result,
                                        !.queued = Len(p.c.events) - Len(old.events),
                                        !.env = env,
                                        !.before = Some(old),
                                        !.after = Some(p.c)]]
    /\ UNCHANGED << hwnd, lock, INIT, nCtx, curCtx, winSize, pc >>
    /\ UNCHANGED hookVars

\* input_collector.collect_input(ctx)
InputCollect(t) ==
    /\ LET old == data.v.input_collector
           col == collect_input(old, get_screen_rect(old))
       IN  /\ data' = Some([data.v EXCEPT !.input_collector = col.c])
           /\ hist' = [hist EXCEPT !.pending = << >>,
                                   !.collects = IF @ < 2 THEN @ + 1 ELSE @,
                                   !.lastNonEmpty = (col.snapshot.events # << >>)]
           /\ loc' = [o \in Threads |-> NoLoc]
           /\ call' = [[o \in Threads |-> NoCall] EXCEPT ![t] =
                         [NoCall EXCEPT !.op = "collect_input",
                                        !.outcome = "returned",
                                        !.snap = Some(col.snapshot),
                                        !.expected = hist.pending,
                                        !.before = Some(old),
                                        !.after = Some(col.c)]]
    /\ UNCHANGED << hwnd, lock, INIT, nCtx, curCtx, winSize, pc >>
    /\ UNCHANGED hookVars

NextInput ==
    \/ \E t \in WndThreads, msg \in InputMsgs :
         \E env \in EnvsFor(msg[1]) : InputProcess(t, msg, env)
    \/ \E t \in Presenters : InputCollect(t)

SpecInput == InitInput /\ [][NextInput]_vars

(***************************************************************************)
(* The host under window resizes: the user resizes a window, the window's  *)
(* thread is told by WM_SIZE sooner or later, the presenter renders.       *)
(***************************************************************************)
\* Client-area sizes a window is resized to (no window starts with one).
Sizes == { <<3, 1>> }

\* The user (or the host program) resizes a window.
Resize(w, size) ==
    /\ winSize[w] # size
    /\ winSize' = [winSize EXCEPT ![w] = size]
    /\ UNCHANGED << hwnd, lock, data, INIT, nCtx, curCtx, pc, loc, call, hist >>
    /\ UNCHANGED hookVars

NextResize ==
    \/ \E t \in Presenters, w \in Windows : InitCheck(t, w)
    \/ \E t \in Presenters : InitSet(t)
    \/ \E t \in Presenters : InitInstall(t)
    \/ \E t \in Presenters : InitRestore(t)
    \/ \E t \in Presenters, hdc \in HDCs : CallRender(t, hdc)
    \/ \E t \in Presenters : RenderLock(t)
    \/ \E t \in Presenters : RenderWindow(t)
    \/ \E t \in Presenters : RenderContext(t)
    \/ \E t \in Presenters : RenderRun(t)
    \/ \E t \in Presenters : RenderPaint(t)
    \/ \E t \in Presenters : RenderRestore(t)
    \/ \E t \in WndThreads : CallWndProc(t, <<WM_SIZE, 0, 0>>)
    \/ \E t \in WndThreads : WndLock(t)
    \/ \E t \in WndThreads : WndProcess(t)
    \/ \E t \in WndThreads : WndReturn(t)
    \/ \E t \in Threads : Return(t)
    \/ \E w \in Windows, size \in Sizes : Resize(w, size)

SpecResize == Init /\ [][NextResize]_vars

(***************************************************************************)
(* Properties.                                                             *)
(***************************************************************************)
\* A thread is between taking the host lock and giving it back.
InHost(t) ==
    pc[t] \in {"render_window", "render_context", "render_run", "render_paint",
               "render_restore", "wnd_process", "wnd_return", "getwin_read"}

InRender(t) ==
    pc[t] \in {"render_window", "render_context", "render_run", "render_paint",
               "render_restore"}

Ended(t, op) == pc[t] = "done" /\ call[t].op = op

\* C1: when render returns or unwinds, on whatever path, the GL context
\* current on the calling thread is the one that was current when render
\* was entered.
C1_RenderRestoresContext ==
    \A t \in Threads : Ended(t, "render") => curCtx[t] = call[t].entryCtx

\* C2: render, wnd_proc and get_window touch host state only while holding
\* the one host lock: a thread inside one of them holds the lock and no
\* other thread is inside any of them, so the window procedure never runs
\* its body while a render is between its window check and its restore.
C2_MutualExclusion ==
    \A t \in Threads :
        InHost(t) => /\ lock = t
                     /\ \A o \in Threads \ {t} : ~InHost(o)

\* A render is in its UI pass while the window procedure waits for the lock.
C2_Witness ==
    \E t, o \in Threads : pc[t] = "render_run" /\ pc[o] = "wnd_lock" /\ lock = t

\* C3: each input snapshot holds exactly the events process appended since
\* the previous snapshot (or since the collector was made), in the order
\* they arrived, and the queue holds exactly those appended since: so the
\* snapshots, one after the other, are the appended events in arrival
\* order, each once.
C3_SnapshotsAreArrivals ==
    /\ data.some => data.v.input_collector.events = hist.pending
    /\ \A t \in Threads :
         call[t].snap.some => call[t].snap.v.events = call[t].expected

\* A snapshot of an unchanged window that holds two different events.
C3_Witness ==
    \E t \in Threads :
        /\ call[t].snap.some
        /\ ~call[t].changed
        /\ Len(call[t].snap.v.events) = 2
        /\ call[t].snap.v.events[1] # call[t].snap.v.events[2]

\* C4: a collect_input that follows another with no process in between
\* returns no event, and after any collect_input (until the next process)
\* the queue is empty.
C4_DrainOnce ==
    /\ \A t \in Threads :
         (call[t].snap.some /\ call[t].again # "no") => call[t].snap.v.events = << >>
    /\ (data.some /\ hist.collects >= 1) => data.v.input_collector.events = << >>

\* A second collect_input in a row, after one that returned events.
C4_Witness ==
    \E t \in Threads : call[t].snap.some /\ call[t].again = "afterEvents"

\* C5: when render finds hdc's window to differ from this.window, then
\* before its UI pass the window is the new one, the collector is a fresh
\* one for it (no event, no modifiers) and the cached size is the new
\* window's, not the old one's; the snapshot of that render holds no event;
\* when the window is the same, the step changes nothing of the host state.
C5_WindowStep ==
    \A t \in Threads :
        (pc[t] = "render_window" /\ pc'[t] # "render_window") =>
            LET window == WindowFromDC(loc[t].hdc) IN
            IF window # data.v.window
            THEN /\ data'.v.window = window
                 /\ data'.v.input_collector.hwnd = window
                 /\ data'.v.input_collector.events = << >>
                 /\ data'.v.input_collector.modifiers = None
                 /\ data'.v.client_rect = winSize[window]
                 /\ data'.v.client_rect # winSize[data.v.window]
                 /\ [data'.v EXCEPT !.window = 0, !.input_collector = 0, !.client_rect = 0]
                      = [data.v EXCEPT !.window = 0, !.input_collector = 0, !.client_rect = 0]
            ELSE data' = data

C5_WindowChange ==
    /\ [][C5_WindowStep]_vars
    /\ [](\A t \in Threads :
            (call[t].changed /\ call[t].snap.some) => call[t].snap.v.events = << >>)

\* A render that found a new window, dropped events queued for the old one
\* and ran its UI pass.
C5_Witness ==
    \E t \in Threads : call[t].changed /\ call[t].discarded > 0 /\ call[t].snap.some

\* C6: wnd_proc returns whether the UI engine wants the keyboard or the
\* pointer at that moment, whatever the message and whatever process made
\* of it; process has run on the message (and queued its events) before.
C6_ReturnStep ==
    \A t \in Threads :
        (pc[t] = "wnd_return" /\ pc'[t] = "done") =>
            /\ call'[t].outcome = "returned"
            /\ call'[t].ret = (data.v.ctx.wants_keyboard_input \/ data.v.ctx.wants_pointer_input)

C7_ReturnsRecognized ==
    \A t \in Threads :
        (Ended(t, "wnd_proc") /\ call[t].outcome = "returned") =>
            call[t].ret = (call[t].result # "Unknown")

\* Past the checks at the head of init_with_state_context.
PastInitCheck(t) == pc[t] \in {"init_set", "init_install", "init_restore"}

C8_HeadStep ==
    \A t \in Threads :
        (pc[t] = "idle" /\ pc'[t] = "done" /\ call'[t].op = "init") =>
            (hwnd' = hwnd /\ data' = data /\ nCtx' = nCtx /\ curCtx' = curCtx)

C9_AtomicOneShot ==
    /\ Cardinality({t \in Threads : call[t].op = "init" /\ (PastInitCheck(t) \/ call[t].outcome = "returned")}) <= 1
    /\ nCtx <= 1
    /\ hist.installs <= 1

\* C10: a render, wnd_proc or get_window call started when is_ready()
\* answers true does not fail with "You need to call init first".
C10_ReadyMeansInstalled ==
    \A t \in Threads :
        call[t].readyAtStart => call[t].why # "You need to call init first"

\* C11: the painter runs only while the private gl_context is current on
\* the calling thread and that thread holds the host lock, at most once in a
\* render call, and never in a render whose UI pass produced no shape: such
\* a render resolves no client size and paints nothing.
C11_PaintDiscipline ==
    \A t \in Threads :
        /\ pc[t] = "render_paint" =>
              /\ curCtx[t] = data.v.gl_context
              /\ curCtx[t].kind = "priv"
              /\ lock = t
              /\ call[t].shapes = "shapes"
        /\ call[t].paints <= 1
        /\ call[t].painted.some =>
              /\ call[t].painted.v.context = call[t].painted.v.gl_context
              /\ call[t].painted.v.context.kind = "priv"
              /\ call[t].painted.v.holder = t
              /\ call[t].shapes = "shapes"
        /\ call[t].shapes = "empty" =>
              /\ call[t].paints = 0
              /\ call[t].polls = 0
              /\ ~call[t].painted.some

\* A render that painted and returned with the host's context restored.
C11_Witness ==
    \E t \in Threads :
        /\ Ended(t, "render") /\ call[t].outcome = "returned"
        /\ call[t].paints = 1
        /\ call[t].entryCtx.kind = "host"

\* C12: after an init call that returned, the GL context current on the
\* calling thread is the one that was current before the call ('none'
\* included); up to the creation of the private context the thread's
\* context is untouched, and the private context is current on a thread
\* only from its creation to the end of that thread's init call, while the
\* painter is made and the host state installed (a call that failed after
\* the creation is not a successful call and is left aside).
C12_InitRestoresContext ==
    \A t \in Threads :
        /\ (call[t].op = "init" /\ call[t].outcome = "returned") =>
              curCtx[t] = call[t].entryCtx
        /\ pc[t] = "init_set" => curCtx[t] = call[t].entryCtx
        /\ pc[t] \in {"init_install", "init_restore"} =>
              /\ curCtx[t] = loc[t].gl_context
              /\ loc[t].gl_context.kind = "priv"
              /\ loc[t].o_context = call[t].entryCtx
        /\ curCtx[t].kind = "priv" =>
              /\ call[t].op = "init"
              /\ \/ pc[t] \in {"init_install", "init_restore"}
                 \/ pc[t] = "done" /\ call[t].outcome = "panic"

\* An init call that ran on a thread with a context of the host's, made
\* its private context and returned.
C12_Witness ==
    \E t \in Threads :
        /\ Ended(t, "init") /\ call[t].outcome = "returned"
        /\ call[t].entryCtx.kind = "host"
        /\ data.some /\ data.v.gl_context.kind = "priv"

\* The latest call on the collector is a process call of thread t.
Processing(t) == call[t].op = "process"

\* The events that call appended, and whether it kept what was queued.
Appended(t) ==
    SubSeq(call[t].after.v.events, Len(call[t].before.v.events) + 1,
           Len(call[t].after.v.events))
Kept(t) ==
    /\ Len(call[t].after.v.events) >= Len(call[t].before.v.events)
    /\ SubSeq(call[t].after.v.events, 1, Len(call[t].before.v.events))
          = call[t].before.v.events

\* The modifiers of a key message: alt as given, ctrl and shift as the OS
\* reports the keys.
KeyModifiers(alt, env) ==
    [alt |-> alt, ctrl |-> env.ctrl, shift |-> env.shift, mac_cmd |-> FALSE,
     command |-> env.ctrl]

\* C13: a key-down of V with ctrl held appends one text event carrying the
\* clipboard text and then the key-down event when the clipboard holds a
\* non-empty text; when the clipboard is empty or has no readable text it
\* appends the key-down event alone.
C13_PasteNonEmptyOnly ==
    \A t \in Threads :
        (Processing(t) /\ loc[t].msg[1] \in {WM_KEYDOWN, WM_SYSKEYDOWN}
            /\ loc[t].msg[2] = 86 /\ call[t].env.ctrl) =>
            LET clip == call[t].env.clip
                app == Appended(t)
            IN  IF clip.some /\ clip.v # << >>
                THEN /\ Len(app) = 2
                     /\ app[1] = [type |-> "Text", text |-> clip.v]
                     /\ app[2].type = "Key" /\ app[2].key = "V" /\ app[2].pressed
                ELSE /\ Len(app) = 1
                     /\ app[1].type = "Key" /\ app[1].key = "V" /\ app[1].pressed

\* The key the collector is to resolve a virtual-key code to: the three
\* ranges in order, the fifteen listed codes, and no key for any other code.
ListedKeys ==
    { <<VK_DOWN, "ArrowDown">>, <<VK_LEFT, "ArrowLeft">>, <<VK_RIGHT, "ArrowRight">>,
      <<VK_UP, "ArrowUp">>, <<VK_ESCAPE, "Escape">>, <<VK_TAB, "Tab">>,
      <<VK_BACK, "Backspace">>, <<VK_RETURN, "Enter">>, <<VK_SPACE, "Space">>,
      <<VK_INSERT, "Insert">>, <<VK_DELETE, "Delete">>, <<VK_HOME, "Home">>,
      <<VK_END, "End">>, <<VK_PRIOR, "PageUp">>, <<VK_NEXT, "PageDown">> }
KeyOfCode(code) ==
    IF code \in 48..57 THEN Some(KeyDigits[code - 47])
    ELSE IF code \in 65..90 THEN Some(KeyLetters[code - 64])
    ELSE IF code \in 112..131 THEN Some(KeyFunctions[code - 111])
    ELSE IF \E p \in ListedKeys : p[1] = code
    THEN Some((CHOOSE p \in ListedKeys : p[1] = code)[2])
    ELSE None

\* C14: get_key maps 0x30..0x39 to Num0..Num9, 0x41..0x5A to A..Z and
\* 0x70..0x83 to F1..F20, each in order, the fifteen listed codes to their
\* keys and every other code to no key; a key-down or key-up message whose
\* code maps to no key appends no event, one whose code maps to a key appends
\* a key event for that key.
C14_KeyMap ==
    /\ \A code \in 0..300 : get_key(code) = KeyOfCode(code)
    /\ \A t \in Threads :
          (Processing(t) /\ IsKeyMsg(loc[t].msg[1])) =>
              LET key == KeyOfCode(loc[t].msg[2])
                  app == Appended(t)
              IN  /\ get_key(loc[t].msg[2]) = key
                  /\ IF key.some
                     THEN /\ Len(app) >= 1
                          /\ app[Len(app)].type = "Key"
                          /\ app[Len(app)].key = key.v
                     ELSE app = << >>

\* Bits 16..31 of a message parameter read as a signed 16-bit integer, and
\* bits 0..15 likewise.
SignedHiWord(x) ==
    LET w == (x \div 65536) % 65536 IN IF w >= 32768 THEN w - 65536 ELSE w
SignedLoWord(x) ==
    LET w == x % 65536 IN IF w >= 32768 THEN w - 65536 ELSE w

\* C15: a vertical or horizontal wheel message appends exactly one event
\* (and keeps what was queued). With d the high word of wparam read as a
\* signed 16-bit integer: when the ctrl bit of wparam is set it is a zoom,
\* by 1.5 for d > 0 and by 0.5 for d < 0; otherwise it is a scroll with
\* horizontal delta 0, vertical delta d*10/120 (10 for d = 120, -10 for
\* d = -120) and no modifiers.
C15_Wheel ==
    \A t \in Threads :
        (Processing(t) /\ loc[t].msg[1] \in WheelMsgIds) =>
            LET wparam == loc[t].msg[2]
                d == SignedHiWord(wparam)
                app == Appended(t)
            IN  /\ Kept(t)
                /\ Len(app) = 1
                /\ IF (wparam \div 8) % 2 = 1
                   THEN /\ app[1].type = "Zoom"
                        /\ call[t].result = "Zoom"
                        /\ d > 0 => 10 * app[1].num = 15 * app[1].den
                        /\ d < 0 => 10 * app[1].num = 5 * app[1].den
                   ELSE /\ app[1].type = "MouseWheel"
                        /\ call[t].result = "Scroll"
                        /\ app[1].x = 0
                        /\ 120 * app[1].num = d * 10 * app[1].den
                        /\ d = 120 => app[1].num = 10 * app[1].den
                        /\ d = -120 => app[1].num = -10 * app[1].den
                        /\ app[1].modifiers = ModifiersNONE

\* A wheel message turned backwards by one notch, without ctrl, appended to
\* a queue that held an event.
C15_Witness ==
    \E t \in Threads :
        /\ Processing(t) /\ loc[t].msg[1] = WM_MOUSEHWHEEL
        /\ SignedHiWord(loc[t].msg[2]) = -120
        /\ Len(call[t].before.v.events) = 1
        /\ Appended(t)[1].type = "MouseWheel"

\* C16: every event a pointer message (move; down, up, double click of the
\* left, right, middle and extra buttons) appends carries the position
\* (x, y), x the bits 0..15 and y the bits 16..31 of lparam, each as a signed
\* 16-bit integer (0xFFFF is -1, 0x8000 is -32768), whatever the message and
\* whatever the bits above.
C16_Position ==
    \A t \in Threads :
        (Processing(t) /\ loc[t].msg[1] \in PointerMsgIds \cup XButtonMsgIds) =>
            LET lparam == loc[t].msg[3]
                app == Appended(t)
            IN  /\ Kept(t)
                /\ call[t].outcome = "returned" => Len(app) = 1
                /\ \A i \in 1..Len(app) :
                     /\ app[i].pos = << SignedLoWord(lparam), SignedHiWord(lparam) >>
                     /\ lparam % 65536 = 65535 => app[i].pos[1] = -1
                     /\ lparam % 65536 = 32768 => app[i].pos[1] = -32768
                     /\ (lparam \div 65536) % 65536 = 32768 => app[i].pos[2] = -32768
                     /\ (lparam \div 65536) % 65536 = 65535 => app[i].pos[2] = -1

\* An extra-button message at y = 0x8000, the bits above bit 31 set.
C16_Witness ==
    \E t \in Threads :
        /\ Processing(t) /\ loc[t].msg[1] = WM_XBUTTONUP
        /\ loc[t].msg[3] < 0
        /\ Len(Appended(t)) = 1
        /\ Appended(t)[1].pos = <<0, -32768>>

\* The message ids process has an arm for.
RecognizedMsgIds ==
    PointerMsgIds \cup XButtonMsgIds \cup WheelMsgIds \cup CharMsgIds \cup KeyMsgIds

\* C17: for a message id outside the recognized set, WM_SIZE included,
\* process answers Unknown and leaves the queue and the stored modifiers as
\* they were.
C17_UnknownNoChange ==
    \A t \in Threads :
        (Processing(t) /\ loc[t].msg[1] \notin RecognizedMsgIds) =>
            /\ call[t].result = "Unknown"
            /\ call[t].outcome = "returned"
            /\ call[t].after.v.events = call[t].before.v.events
            /\ call[t].after.v.modifiers = call[t].before.v.modifiers
            /\ call[t].after = call[t].before

\* WM_SIZE processed by a collector that holds an event and modifiers.
C17_Witness ==
    \E t \in Threads :
        /\ Processing(t) /\ loc[t].msg[1] = WM_SIZE
        /\ call[t].before.v.events # << >>
        /\ call[t].before.v.modifiers.some

\* The modifiers a mouse message carries in its button-state bits.
MouseModifiers(wparam) ==
    [alt |-> FALSE, ctrl |-> (wparam \div 8) % 2 = 1, shift |-> (wparam \div 4) % 2 = 1,
     mac_cmd |-> FALSE, command |-> (wparam \div 8) % 2 = 1]

\* C18: the stored modifiers are None exactly as long as the collector has
\* processed no key-down or key-up message. While they are None a mouse
\* move, button or wheel message leaves them None and a snapshot reports
\* the all-false modifiers; once they are set, each mouse move, button or
\* wheel message replaces them by the modifiers of its button-state bits
\* (alt false); a character message never changes them; a key message sets
\* them.
C18_Modifiers ==
    /\ data.v.input_collector.modifiers.some <=> hist.keyed
    /\ \A t \in Threads :
          /\ (Processing(t) /\ loc[t].msg[1] \in PointerMsgIds \cup XButtonMsgIds \cup WheelMsgIds) =>
                IF call[t].before.v.modifiers.some
                THEN call[t].after.v.modifiers = Some(MouseModifiers(loc[t].msg[2]))
                ELSE call[t].after.v.modifiers = None
          /\ (Processing(t) /\ loc[t].msg[1] \in CharMsgIds) =>
                call[t].after.v.modifiers = call[t].before.v.modifiers
          /\ (Processing(t) /\ loc[t].msg[1] \in KeyMsgIds) =>
                call[t].after.v.modifiers.some
          /\ call[t].op = "collect_input" =>
                /\ call[t].after.v.modifiers = call[t].before.v.modifiers
                /\ call[t].snap.v.modifiers =
                      IF call[t].before.v.modifiers.some
                      THEN call[t].before.v.modifiers.v ELSE ModifiersNONE

\* A button message with ctrl in its bits processed while the modifiers were
\* None, and the snapshot taken after it.
C18_Witness ==
    \E t \in Threads :
        /\ call[t].op = "collect_input"
        /\ ~call[t].before.v.modifiers.some
        /\ Len(call[t].snap.v.events) = 2
        /\ call[t].snap.v.events[2].type = "PointerButton"
        /\ call[t].snap.v.events[2].modifiers.ctrl
        /\ call[t].snap.v.modifiers = ModifiersNONE

\* C19: a key-up message derives its modifiers as a key-down message does:
\* alt is true exactly for the system variant (WM_SYSKEYUP), ctrl and shift
\* are the live key state; they become the stored modifiers and are carried
\* by the key-up event (pressed = false), which is appended when the key
\* resolves.
C19_KeyUpModifiers ==
    \A t \in Threads :
        (Processing(t) /\ loc[t].msg[1] \in {WM_KEYUP, WM_SYSKEYUP}) =>
            LET modifiers == KeyModifiers(loc[t].msg[1] = WM_SYSKEYUP, call[t].env)
                key == get_key(loc[t].msg[2])
                app == Appended(t)
            IN  /\ call[t].after.v.modifiers = Some(modifiers)
                /\ IF key.some
                   THEN /\ Len(app) = 1
                        /\ app[1].type = "Key"
                        /\ ~app[1].pressed
                        /\ app[1].key = key.v
                        /\ app[1].modifiers = modifiers
                   ELSE app = << >>

\* C20: a key-down message whose code resolves to a key appends, last, a
\* key event with pressed = true, the derived modifiers, that key and
\* repeat = (lparam AND KF_REPEAT) # 0; before it exactly one Copy event if
\* and only if the key is C with ctrl held, exactly one Cut event if and only
\* if the key is X with ctrl held, and nothing else but the pasted text of
\* ctrl+V.
C20_KeyDown ==
    \A t \in Threads :
        (Processing(t) /\ loc[t].msg[1] \in {WM_KEYDOWN, WM_SYSKEYDOWN}
            /\ get_key(loc[t].msg[2]).some) =>
            LET env == call[t].env
                key == get_key(loc[t].msg[2]).v
                modifiers == KeyModifiers(loc[t].msg[1] = WM_SYSKEYDOWN, env)
                paste == IF key = "V" /\ env.ctrl /\ env.clip.some
                         THEN << [type |-> "Text", text |-> env.clip.v] >> ELSE << >>
                copy == IF key = "C" /\ env.ctrl THEN << [type |-> "Copy"] >> ELSE << >>
                cut == IF key = "X" /\ env.ctrl THEN << [type |-> "Cut"] >> ELSE << >>
                app == Appended(t)
            IN  /\ Kept(t)
                /\ call[t].result = "Key"
                /\ app = paste \o copy \o cut \o
                         << [type |-> "Key", pressed |-> TRUE, modifiers |-> modifiers,
                             key |-> key,
                             repeat |-> (loc[t].msg[3] \div 16384) % 2 = 1] >>

\* A ctrl+C key-down that appended Copy and the key event to a queue that
\* held an event.
C20_Witness ==
    \E t \in Threads :
        /\ Processing(t) /\ loc[t].msg[1] = WM_KEYDOWN
        /\ Len(call[t].before.v.events) = 1
        /\ Len(Appended(t)) = 2
        /\ Appended(t)[1].type = "Copy"
        /\ Appended(t)[2].key = "C"

\* C24: process never aborts: whatever the message, the extra-button
\* messages with any high word of wparam included, no unreachable!() is
\* reached and process returns a classification, so that wnd_proc never
\* unwinds out of process.
C24_ProcessNeverAborts ==
    \A t \in Threads :
        call[t].op \in {"wnd_proc", "process"} =>
            /\ call[t].why # "unreachable"
            /\ call[t].result # "none" => call[t].outcome # "panic"

\* C27: once the host state is installed, the collector's window handle is
\* target_window in every state; a step changes target_window or the
\* collector's window only as the window step of a render holding the lock,
\* both together, to the window owning the presented device context, and
\* never inside wnd_proc or get_window; the private gl_context never changes.
C27_WindowStep ==
    (data.some /\ data'.some) =>
        /\ data'.v.gl_context = data.v.gl_context
        /\ (data'.v.window # data.v.window
               \/ data'.v.input_collector.hwnd # data.v.input_collector.hwnd) =>
              \E t \in Threads :
                  /\ pc[t] = "render_window" /\ pc'[t] = "render_context"
                  /\ lock = t
                  /\ data'.v.window = WindowFromDC(loc[t].hdc)
                  /\ data'.v.input_collector = InputCollector_new(data'.v.window)
        /\ (\E t \in Threads : pc[t] \in {"wnd_lock", "wnd_process", "wnd_return",
                                            "getwin_lock", "getwin_read"}
                                 /\ pc'[t] # pc[t]) =>
              /\ data'.v.window = data.v.window
              /\ data'.v.input_collector.hwnd = data.v.input_collector.hwnd

C27_CollectorFollowsWindow ==
    /\ [][C27_WindowStep]_vars
    /\ [](data.some => /\ data.v.input_collector.hwnd = data.v.window
                        /\ data.v.gl_context = PrivCtx(1)
                        /\ data.v.painter = data.v.gl_context)

\* The host after a render moved it to another window than the one init
\* was given, with a message processed since.
C27_Witness ==
    /\ data.some /\ hwnd.some
    /\ data.v.window # hwnd.v
    /\ data.v.input_collector.hwnd = data.v.window
    /\ data.v.input_collector.events # << >>

\* C21: the client size handed to the painter is the result of the latest
\* client-area query made for it, a query on the current target_window: the
\* one of the first paint, of the latest WM_SIZE processed by wnd_proc or of
\* the latest window change found by render, whichever came last. It is not
\* the placeholder (0,0) and not a previous window's size; the cached size
\* always is that latest query's result; a render queries once when it
\* finds a new window, once when it is the first to paint, and not otherwise.
C21_ClientSize ==
    /\ data.some =>
          IF hist.lastQuery.some
          THEN /\ hist.lastQuery.v.window = data.v.window
               /\ data.v.client_rect = hist.lastQuery.v.size
          ELSE /\ data.v.client_rect = <<0, 0>>
               /\ ~INIT
    /\ \A t \in Threads :
          /\ call[t].painted.some =>
                /\ call[t].painted.v.query.some
                /\ call[t].painted.v.query.v.window = call[t].painted.v.window
                /\ call[t].painted.v.client_rect = call[t].painted.v.query.v.size
                /\ call[t].painted.v.client_rect # <<0, 0>>
          /\ call[t].op = "render" =>
                call[t].queries = (IF call[t].changed THEN 1 ELSE 0)
                                  + (IF call[t].firstPaint THEN 1 ELSE 0)

\* A render that painted, not as the first and with its window unchanged,
\* with the size a WM_SIZE brought after the window was resized.
C21_Witness ==
    \E t \in Threads :
        /\ call[t].painted.some
        /\ ~call[t].firstPaint /\ ~call[t].changed
        /\ call[t].painted.v.client_rect \in Sizes

\* C26: in a render that paints, the client size handed to the painter is
\* the size of the screen rectangle in the input snapshot the UI pass of
\* that render was given.
C26_PaintSizeIsSnapshotSize ==
    \A t \in Threads :
        (call[t].painted.some /\ call[t].snap.some) =>
            /\ call[t].snap.v.screen_rect.min = <<0, 0>>
            /\ call[t].painted.v.client_rect = call[t].snap.v.screen_rect.max

(***************************************************************************)
(* The example's hooks.                                                    *)
(***************************************************************************)
InSwap(t) == hk[t].fn = "hk_wgl_swap_buffers"
InHkWndProc(t) == hk[t].fn = "hk_wnd_proc"

\* C22 as stated: every intercepted presentation call that has ended ran
\* render once and then the host's original presentation function once;
\* the initialization closure ran at most once, init_default had returned
\* before any render started, and no window is subclassed and no wnd_proc
\* entered before init_default returned.
C22_EveryCallPresents ==
    /\ \A t \in Threads :
         InSwap(t) /\ hk[t].pos \in {"ret", "panicked"}
             => hk[t].trace = << "render", "original" >>
    /\ hookCalls.inits <= 1
    /\ \A t \in Threads : call[t].op \in {"render", "wnd_proc"} => hookCalls.initReturned
    /\ \A w \in Windows : GWLP_WNDPROC[w] = HkWndProcPtr => hookCalls.initReturned

\* C22, amended: an intercepted presentation call that returns ran render
\* once and then the original presentation function once; a call in which
\* init_default or render panics, or which finds the Once poisoned, never
\* reaches the original function. The initialization closure runs at most
\* once over all calls and threads and installs the host state at most once,
\* a call is past call_once only when init_default has returned, render and
\* wnd_proc start only after that, and a window's procedure is hk_wnd_proc
\* only after that.
C22_ReturningCallPresents ==
    /\ \A t \in Threads :
         InSwap(t) =>
             /\ hk[t].pos = "ret" => hk[t].trace = << "render", "original" >>
             /\ hk[t].pos = "original" => hk[t].trace = << "render" >>
             /\ hk[t].pos = "panicked" => hk[t].trace \in { << >>, << "render" >> }
             /\ hk[t].pos \notin {"ret", "original", "panicked"} => hk[t].trace = << >>
             /\ hk[t].pos \in {"get_window", "render", "original", "ret"}
                    => hookCalls.inits = 1 /\ hookCalls.initReturned
    /\ hookCalls.inits <= 1
    /\ hist.installs <= 1
    /\ \A t \in Threads : call[t].op \in {"render", "wnd_proc"} => hookCalls.initReturned
    /\ \A t \in Threads : InHkWndProc(t) => hookCalls.initReturned
    /\ \A w \in Windows : GWLP_WNDPROC[w] = HkWndProcPtr => hookCalls.initReturned

\* Two presentation calls from two threads have both returned, each after
\* its render and its call of the original function, with one run of the
\* initialization.
C22_Witness ==
    /\ \A t \in Threads :
         InSwap(t) /\ hk[t].pos = "ret" /\ hk[t].trace = << "render", "original" >>
    /\ hookCalls.inits = 1
    /\ hookCalls.swaps = 2

\* C23: hk_wnd_proc never runs while OLD_WND_PROC is unset; when it has
\* returned it forwarded the message exactly when wnd_proc returned false,
\* and it forwarded to the original procedure of the window the message was
\* sent to.
C23_ForwardsToOriginal ==
    \A t \in Threads :
        InHkWndProc(t) =>
            /\ OLD_WND_PROC.some
            /\ hk[t].pos # "panicked" \/ hk[t].why # "OLD_WND_PROC.unwrap() on None"
            /\ hk[t].pos = "ret" =>
                   /\ hk[t].forwarded.some <=> ~hk[t].consumed
                   /\ hk[t].forwarded.some => hk[t].forwarded.v = WndProcOf(hk[t].window)

\* C25: no deadlock. A call of render, wnd_proc, get_window or lock_state
\* that waits for the mutex of the host state eventually stops waiting, and
\* a thread that holds the mutex eventually releases it, also when the call
\* starts on the thread that is inside render.
C25_NoDeadlock ==
    \A t \in Threads :
        /\ (pc[t] \in LockWaits) ~> (pc[t] \notin LockWaits)
        /\ (lock = t) ~> (lock # t)

=============================================================================
